---------------------------- MODULE Spec2Model ----------------------------
(***************************************************************************)
(* A model of the compare-intel tools:                                     *)
(*   report_compare.py         multi-sheet rectangle comparator            *)
(*   inter_compare_offset.py   row-by-row offset scanner                   *)
(*                                                                         *)
(* Python text is a sequence of one-character strings.  A raw cell value   *)
(* is a record [kind, repr]: its Python type and its str() form, which is  *)
(* all the code ever looks at (isinstance tests, str(value),               *)
(* value.strip()).                                                         *)
(***************************************************************************)
EXTENDS Integers, Sequences, FiniteSets, TLC

(***************************************************************************)
(* Python text primitives                                                  *)
(***************************************************************************)

Whitespace == {" ", "\t", "\n"}

DigitChars == <<"0", "1", "2", "3", "4", "5", "6", "7", "8", "9">>

UpperChars == <<"A", "B", "C", "D", "E", "F", "G", "H", "I", "J", "K", "L", "M",
                "N", "O", "P", "Q", "R", "S", "T", "U", "V", "W", "X", "Y", "Z">>

LowerChars == <<"a", "b", "c", "d", "e", "f", "g", "h", "i", "j", "k", "l", "m",
                "n", "o", "p", "q", "r", "s", "t", "u", "v", "w", "x", "y", "z">>

IsDigit(ch) == \E i \in 1..Len(DigitChars) : DigitChars[i] = ch

DigitVal(ch) == (CHOOSE i \in 1..Len(DigitChars) : DigitChars[i] = ch) - 1

AllDigits(s) == \A i \in 1..Len(s) : IsDigit(s[i])

\* str.lower() on one character
LowerChar(ch) ==
    IF \E i \in 1..Len(UpperChars) : UpperChars[i] = ch
    THEN LowerChars[CHOOSE i \in 1..Len(UpperChars) : UpperChars[i] = ch]
    ELSE ch

\* str.lower()
lower(s) == [i \in 1..Len(s) |-> LowerChar(s[i])]

RECURSIVE lstrip(_)
lstrip(s) ==
    IF s # <<>> /\ Head(s) \in Whitespace THEN lstrip(Tail(s)) ELSE s

RECURSIVE rstrip(_)
rstrip(s) ==
    IF s # <<>> /\ s[Len(s)] \in Whitespace
    THEN rstrip(SubSeq(s, 1, Len(s) - 1))
    ELSE s

\* str.strip()
strip(s) == rstrip(lstrip(s))

\* str.replace(',', '')
drop_commas(s) == SelectSeq(s, LAMBDA ch : ch # ",")

\* index of the first character of s that lies in set, 0 when there is none
FirstIn(s, set) ==
    IF \E i \in 1..Len(s) : s[i] \in set
    THEN CHOOSE i \in 1..Len(s) :
            /\ s[i] \in set
            /\ \A j \in 1..(i - 1) : s[j] \notin set
    ELSE 0

(***************************************************************************)
(* NUMERIC_RE: an optional sign; digits with an optional fractional part,  *)
(* or a dot followed by digits; an optional exponent (e or E, an optional  *)
(* sign, digits); nothing else.                                            *)
(***************************************************************************)

Unsigned(s) == IF s # <<>> /\ Head(s) \in {"+", "-"} THEN Tail(s) ELSE s

\* the part of an unsigned numeral before its exponent marker
MantissaOf(b) ==
    LET e == FirstIn(b, {"e", "E"})
    IN  IF e = 0 THEN b ELSE SubSeq(b, 1, e - 1)

HasExponent(b) == FirstIn(b, {"e", "E"}) # 0

\* the text after the exponent marker
ExponentOf(b) == SubSeq(b, FirstIn(b, {"e", "E"}) + 1, Len(b))

IntPartOf(m) ==
    LET d == FirstIn(m, {"."})
    IN  IF d = 0 THEN m ELSE SubSeq(m, 1, d - 1)

FracPartOf(m) ==
    LET d == FirstIn(m, {"."})
    IN  IF d = 0 THEN <<>> ELSE SubSeq(m, d + 1, Len(m))

\* digits with an optional "." and more digits, or "." and digits
MantissaOk(m) ==
    /\ AllDigits(IntPartOf(m))
    /\ AllDigits(FracPartOf(m))
    /\ IF FirstIn(m, {"."}) = 0
       THEN Len(m) >= 1
       ELSE Len(IntPartOf(m)) >= 1 \/ Len(FracPartOf(m)) >= 1

\* an optional sign, then digits
ExponentOk(x) == Unsigned(x) # <<>> /\ AllDigits(Unsigned(x))

NUMERIC_RE(s) ==
    LET b == Unsigned(s)
    IN  /\ MantissaOk(MantissaOf(b))
        /\ HasExponent(b) => ExponentOk(ExponentOf(b))

(***************************************************************************)
(* decimal.Decimal, as far as the tools use it.  A Decimal is a record     *)
(* [cls, neg, digits, exp]: cls is "finite", "inf", "nan", "snan" or       *)
(* "invalid" (the constructor raised), digits the coefficient without      *)
(* leading zeros, exp the exponent.                                        *)
(***************************************************************************)

\* precision of Python's default decimal context, which quantize() enforces
PREC == 28

\* DP5 = Decimal("0.00001"): five fractional digits
DP5 == 5

RECURSIVE StripLeadingZeros(_)
StripLeadingZeros(d) ==
    IF Len(d) > 1 /\ Head(d) = "0" THEN StripLeadingZeros(Tail(d))
    ELSE IF d = <<>> THEN <<"0">> ELSE d

RECURSIVE ToInt(_)
ToInt(d) ==
    IF d = <<>> THEN 0
    ELSE 10 * ToInt(SubSeq(d, 1, Len(d) - 1)) + DigitVal(d[Len(d)])

SignedInt(x) ==
    IF x # <<>> /\ Head(x) = "-" THEN 0 - ToInt(Unsigned(x)) ELSE ToInt(Unsigned(x))

Zeros(n) == [i \in 1..n |-> "0"]

IsZeroCoefficient(d) == \A i \in 1..Len(d) : d[i] = "0"

InvalidDecimal == [cls |-> "invalid", neg |-> FALSE, digits |-> <<"0">>, exp |-> 0]

\* Decimal(text): the constructor's grammar, applied to the stripped text
DecimalOf(text) ==
    LET t == lower(strip(text))
        neg == t # <<>> /\ Head(t) = "-"
        b == Unsigned(t)
        m == MantissaOf(b)
    IN  IF MantissaOk(m) /\ (HasExponent(b) => ExponentOk(ExponentOf(b)))
        THEN [cls |-> "finite", neg |-> neg,
              digits |-> StripLeadingZeros(IntPartOf(m) \o FracPartOf(m)),
              exp |-> (IF HasExponent(b) THEN SignedInt(ExponentOf(b)) ELSE 0)
                        - Len(FracPartOf(m))]
        ELSE IF b \in {<<"i", "n", "f">>, <<"i", "n", "f", "i", "n", "i", "t", "y">>}
        THEN [cls |-> "inf", neg |-> neg, digits |-> <<"0">>, exp |-> 0]
        ELSE IF b = <<"n", "a", "n">>
        THEN [cls |-> "nan", neg |-> neg, digits |-> <<"0">>, exp |-> 0]
        ELSE IF b = <<"s", "n", "a", "n">>
        THEN [cls |-> "snan", neg |-> neg, digits |-> <<"0">>, exp |-> 0]
        ELSE InvalidDecimal

\* the coefficient plus one
RECURSIVE Increment(_)
Increment(d) ==
    IF d = <<>> THEN <<"1">>
    ELSE IF d[Len(d)] = "9"
         THEN Increment(SubSeq(d, 1, Len(d) - 1)) \o <<"0">>
         ELSE SubSeq(d, 1, Len(d) - 1) \o <<DigitChars[DigitVal(d[Len(d)]) + 2]>>

\* ROUND_HALF_UP: round away from zero when the first dropped digit is 5..9
RoundsUpHalfUp(d, kept) == DigitVal(d[kept + 1]) >= 5

\* Decimal._rescale(-DP5, ROUND_HALF_UP) of a non-zero finite coefficient
Rescale(d, exp) ==
    LET kept == Len(d) + exp + DP5
    IN  IF exp >= 0 - DP5 THEN d \o Zeros(exp + DP5)
        ELSE IF kept < 0 THEN <<"0">>
        ELSE LET coeff == IF kept = 0 THEN <<"0">> ELSE SubSeq(d, 1, kept)
             IN  IF RoundsUpHalfUp(d, kept)
                 THEN StripLeadingZeros(Increment(coeff))
                 ELSE coeff

\* d.quantize(DP5, rounding=ROUND_HALF_UP): [raised, q]
quantize(d) ==
    IF d.cls \in {"inf", "snan"} THEN [raised |-> TRUE, q |-> d]
    ELSE IF d.cls = "nan" THEN [raised |-> FALSE, q |-> d]
    ELSE IF IsZeroCoefficient(d.digits)
    THEN [raised |-> FALSE, q |-> [d EXCEPT !.digits = <<"0">>, !.exp = 0 - DP5]]
    ELSE IF (d.exp + Len(d.digits) - 1) + DP5 + 1 > PREC
    THEN [raised |-> TRUE, q |-> d]
    ELSE LET coeff == Rescale(d.digits, d.exp)
         IN  IF Len(coeff) > PREC THEN [raised |-> TRUE, q |-> d]
             ELSE [raised |-> FALSE,
                   q |-> [d EXCEPT !.digits = coeff, !.exp = 0 - DP5]]

\* q == 0
IsZero(q) == q.cls = "finite" /\ IsZeroCoefficient(q.digits)

SignText(q) == IF q.neg THEN <<"-">> ELSE <<>>

NaNText == <<"N", "a", "N">>

\* the sign and the coefficient, without the decimal point
digits_only(q) ==
    IF q.cls # "finite" THEN SignText(q) \o NaNText
    ELSE SignText(q) \o q.digits

\* f"{q:.5f}" of a quantized Decimal
format_5f(q) ==
    IF q.cls # "finite" THEN SignText(q) \o NaNText
    ELSE LET dotplace == Len(q.digits) + q.exp
             intpart  == IF dotplace <= 0 THEN <<"0">>
                         ELSE SubSeq(q.digits, 1, dotplace)
             fracpart == IF dotplace < 0 THEN Zeros(0 - dotplace) \o q.digits
                         ELSE SubSeq(q.digits, dotplace + 1, Len(q.digits))
         IN  SignText(q) \o intpart \o <<".">> \o fracpart

\* f"{q}", that is str(q), of a quantized Decimal (its exponent is -5, so the
\* scientific form is never chosen)
decimal_str(q) ==
    IF q.cls # "finite" THEN SignText(q) \o NaNText
    ELSE LET leftdigits == Len(q.digits) + q.exp
         IN  IF leftdigits <= 0
             THEN SignText(q) \o <<"0", ".">> \o Zeros(0 - leftdigits) \o q.digits
             ELSE SignText(q) \o SubSeq(q.digits, 1, leftdigits) \o <<".">>
                    \o SubSeq(q.digits, leftdigits + 1, Len(q.digits))

(***************************************************************************)
(* Raw cell values and the two normalizers                                 *)
(***************************************************************************)

NoDecimal == [cls |-> "none", neg |-> FALSE, digits |-> <<"0">>, exp |-> 0]

\* a Decimal constructor that raised is caught: the result is None
CaughtToNone(d) == IF d.cls = "invalid" THEN NoDecimal ELSE d

\* report_compare.py: booleans are excluded before the numeric types
as_decimal_if_numeric(value) ==
    IF value.kind = "NoneType" THEN NoDecimal
    ELSE IF value.kind = "bool" THEN NoDecimal
    ELSE IF value.kind \in {"int", "float", "Decimal"}
    THEN CaughtToNone(DecimalOf(value.repr))
    ELSE IF value.kind = "str"
    THEN LET s == drop_commas(strip(value.repr))
         IN  IF s = <<>> THEN NoDecimal
             ELSE IF NUMERIC_RE(s) THEN CaughtToNone(DecimalOf(s))
             ELSE NoDecimal
    ELSE NoDecimal

\* the canonical string of a value, or raised = TRUE when normalize raises
Canonical(text) == [raised |-> FALSE, s |-> text]
Raised == [raised |-> TRUE, s |-> <<>>]

\* report_compare.py normalize
normalize(value) ==
    LET d == as_decimal_if_numeric(value)
    IN  IF d.cls # "none"
        THEN LET r == quantize(d)
             IN  IF r.raised THEN Raised
                 ELSE IF IsZero(r.q)
                      THEN Canonical(<<"0", ".", "0", "0", "0", "0", "0">>)
                      ELSE Canonical(format_5f(r.q))
        ELSE IF value.kind = "NoneType" THEN Canonical(<<>>)
        ELSE Canonical(lower(strip(value.repr)))

\* isinstance(True, int) holds and the boolean is converted as the integer it
\* is: Decimal(int(value))
off_bool_as_int(value) ==
    IF value.kind = "bool"
    THEN DecimalOf(IF lower(value.repr) = <<"t", "r", "u", "e">> THEN <<"1">> ELSE <<"0">>)
    ELSE IF value.kind = "NoneType" THEN NoDecimal
    ELSE IF value.kind \in {"int", "float", "Decimal"}
    THEN CaughtToNone(DecimalOf(value.repr))
    ELSE IF value.kind = "str"
    THEN LET s == drop_commas(strip(value.repr))
         IN  IF s = <<>> THEN NoDecimal
             ELSE IF NUMERIC_RE(s) THEN CaughtToNone(DecimalOf(s))
             ELSE NoDecimal
    ELSE NoDecimal

\* inter_compare_offset.py: a bool is an int to isinstance, and Decimal("True")
\* raises, which is caught
off_as_decimal_if_numeric(value) ==
    IF value.kind = "NoneType" THEN NoDecimal
    ELSE IF value.kind \in {"bool", "int", "float", "Decimal"}
    THEN CaughtToNone(DecimalOf(value.repr))
    ELSE IF value.kind = "str"
    THEN LET s == drop_commas(strip(value.repr))
         IN  IF s = <<>> THEN NoDecimal
             ELSE IF NUMERIC_RE(s) THEN CaughtToNone(DecimalOf(s))
             ELSE NoDecimal
    ELSE NoDecimal

\* inter_compare_offset.py normalize
off_normalize(value) ==
    LET d == off_as_decimal_if_numeric(value)
    IN  IF d.cls # "none"
        THEN LET r == quantize(d)
             IN  IF r.raised THEN Raised
                 ELSE IF IsZero(r.q)
                      THEN Canonical(<<"0", ".", "0", "0", "0", "0", "0">>)
                      ELSE Canonical(decimal_str(r.q))
        ELSE IF value.kind = "NoneType" THEN Canonical(<<>>)
        ELSE Canonical(lower(strip(value.repr)))

(***************************************************************************)
(* Workbooks.  A workbook is its list of sheet names and its cells; it is  *)
(* opened read-only and never written.  The value of a cell is an input    *)
(* the program learns by reading it: the model fixes it at the first read  *)
(* (cells_m, cells_a map the cells read so far to their values) and keeps  *)
(* the order of the reads in reads_m, reads_a.                             *)
(***************************************************************************)

PyNone == [kind |-> "NoneType", repr |-> <<"N", "o", "n", "e">>]
PyStr(text) == [kind |-> "str", repr |-> text]
PyFloat(text) == [kind |-> "float", repr |-> text]

\* the cell values the manual and the auto workbooks are populated from: a
\* blank, a number, blank text, numeric text, and on either side a number too
\* large for quantize()
ManualValues == {PyNone, PyFloat(<<"1", ".", "5">>),
                 PyFloat(<<"1", "e", "+", "2", "3">>)}
AutoValues == {PyStr(<<" ">>), PyStr(<<"1", ".", "5", "0">>),
               PyFloat(<<"1", "e", "+", "2", "3">>)}

\* the sheet the sheet list is overwritten with
FixedSheet == "Non ic&die"

SheetNames == {"A", FixedSheet}

VARIABLES
    pc,             \* where the program is
    argv_sheets,    \* the --sheets list the caller passed
    args,           \* the parsed arguments (args.sheets is assigned at line 133)
    sheetnames_m,   \* wb_m.sheetnames
    sheetnames_a,   \* wb_a.sheetnames
    open_m,         \* the manual workbook's file is open
    open_a,         \* the auto workbook's file is open
    cells_m,        \* cells of the manual workbook read so far
    cells_a,        \* cells of the auto workbook read so far
    reads_m,        \* every ws.cell() read of the manual workbook, in order
    reads_a,        \* every ws.cell() read of the auto workbook, in order
    matched_sheets, \* report_compare.main
    idx,            \* position of the for loop in args.sheets
    rect,           \* compare_rect's parameters
    r, c,           \* compare_rect's loop variables
    result,         \* compare_rect's return value
    m_row, a_row,   \* inter_compare_offset.main: the two row cursors
    current_offset, \* inter_compare_offset.main
    compared_pairs, \* inter_compare_offset.main
    exit_code,      \* the process exit status, -1 while running
    report,         \* what the run printed at its end
    raw_values,     \* the raw cell values handed to the two normalizers
    canon,          \* report_compare.normalize of each of them
    off_canon,      \* inter_compare_offset.normalize of each of them
    df,             \* sort_by_broker_priority: its DataFrame argument
    df_sorted,      \* sort_by_broker_priority: its return value
    sort_args,      \* inter_sort_broker_priority.main: args.sheets, args.sheet
    xls,            \* the input workbook: its sheet names and its sheets
    target_sheet_names, \* inter_sort_broker_priority.main
    out_frames,     \* inter_sort_broker_priority.main
    sheet_i,        \* position of the for loop in xls.sheet_names
    sorted_any,     \* inter_sort_broker_priority.main
    written         \* the sheets of the output workbook, in order

vars == <<pc, argv_sheets, args, sheetnames_m, sheetnames_a, open_m, open_a,
          cells_m, cells_a, reads_m, reads_a, matched_sheets, idx, rect, r, c,
          result, m_row, a_row, current_offset, compared_pairs, exit_code,
          report, raw_values, canon, off_canon, df, df_sorted, sort_args, xls,
          target_sheet_names, out_frames, sheet_i, sorted_any, written>>

\* the variables of the normalizer calls and of inter_sort_broker_priority.py
normVars == <<raw_values, canon, off_canon>>
sortVars == <<df, df_sorted, sort_args, xls, target_sheet_names, out_frames,
              sheet_i, sorted_any, written>>

\* the two comparison tools do not touch them
NormIdle == raw_values = <<>> /\ canon = <<>> /\ off_canon = <<>>
SortIdle ==
    /\ df = <<>>
    /\ df_sorted = <<>>
    /\ sort_args = <<>>
    /\ xls = <<>>
    /\ target_sheet_names = <<>>
    /\ out_frames = <<>>
    /\ sheet_i = 0
    /\ sorted_any = FALSE
    /\ written = <<>>

\* the variables of report_compare.py alone, and of inter_compare_offset.py alone
compareVars == <<argv_sheets, matched_sheets, idx, rect, r, c, result>>
scanVars == <<m_row, a_row, current_offset, compared_pairs>>

CellKey(sheet, row, col) == <<sheet, row, col>>

\* ws.cell(row, column).value: the values the cell may hold
ValuesAt(cells, key, fresh) ==
    IF key \in DOMAIN cells THEN {cells[key]} ELSE fresh

Reveal(cells, key, value) == (key :> value) @@ cells

(***************************************************************************)
(* report_compare.py                                                       *)
(***************************************************************************)

RECURSIVE ColumnLetters(_)
ColumnLetters(col) ==
    IF col <= 0 THEN <<>>
    ELSE ColumnLetters((col - 1) \div 26) \o <<UpperChars[((col - 1) % 26) + 1]>>

RECURSIVE DecimalDigits(_)
DecimalDigits(n) ==
    IF n < 10 THEN <<DigitChars[n + 1]>>
    ELSE DecimalDigits(n \div 10) \o <<DigitChars[(n % 10) + 1]>>

\* a1(col, row): 1-based (col, row) in A1 notation
a1(col, row) == ColumnLetters(col) \o DecimalDigits(row)

NoInfo == [sheet |-> "", cell |-> <<>>, row |-> 0, col |-> 0,
           manual_norm |-> <<>>, auto_norm |-> <<>>,
           manual_raw |-> PyNone, auto_raw |-> PyNone]

NoResult == [returned |-> FALSE, ok |-> FALSE, info |-> NoInfo]

AllMatched == [returned |-> TRUE, ok |-> TRUE, info |-> NoInfo]

FirstMismatch(sheet, row, col, nm, na, mv, av) ==
    [returned |-> TRUE, ok |-> FALSE,
     info |-> [sheet |-> sheet, cell |-> a1(col, row), row |-> row, col |-> col,
               manual_norm |-> nm, auto_norm |-> na,
               manual_raw |-> mv, auto_raw |-> av]]

NoReport == [kind |-> "none", sheet |-> "", missing_manual |-> FALSE,
             missing_auto |-> FALSE, matched |-> <<>>, info |-> NoInfo]

\* sys.exit(code) after the prints in text
Exit(code, text) ==
    /\ pc' = "exited"
    /\ exit_code' = code
    /\ report' = text

\* an exception nobody catches: the interpreter prints the traceback and ends
\* the process with status 1
Uncaught ==
    Exit(1, [NoReport EXCEPT !.kind = "Traceback", !.matched = matched_sheets])

\* the last row and column of compare_rect's two ranges
LastRow(q) == q.start_row + q.rows - 1
LastCol(q) == q.start_col + q.cols - 1

\* the position ColumnMajorNext visits after (row, col): a whole column first
ColumnMajorNext(q, row, col) ==
    IF row < LastRow(q) THEN <<row + 1, col>> ELSE <<q.start_row, col + 1>>

\* the position the nested for loops visit after (row, col)
NextPosition(q, row, col) ==
    IF col < LastCol(q) THEN <<row, col + 1>> ELSE <<row + 1, q.start_col>>

\* both loops are exhausted after (row, col)
RectangleDone(q, row, col) == row = LastRow(q) /\ col = LastCol(q)

\* range(start, start + n) is empty for one of the two loops
RectangleEmpty(q) == q.rows < 1 \/ q.cols < 1

\* one pass of compare_rect's inner loop body, at (r, c); with an empty range
\* the body never runs and compare_rect returns (True, None) at once
CompareCell ==
    /\ pc = "compare_rect"
    /\ IF RectangleEmpty(rect)
       THEN /\ result' = AllMatched
            /\ pc' = "returned"
            /\ UNCHANGED <<cells_m, cells_a, reads_m, reads_a, r, c, exit_code,
                           report>>
       ELSE
       LET key == CellKey(rect.sheet, r, c)
       IN  \E mv \in ValuesAt(cells_m, key, ManualValues),
              av \in ValuesAt(cells_a, key, AutoValues) :
             LET nm == normalize(mv)
                 na == normalize(av)
             IN  /\ cells_m' = Reveal(cells_m, key, mv)
                 /\ cells_a' = Reveal(cells_a, key, av)
                 /\ reads_m' = Append(reads_m, key)
                 /\ reads_a' = Append(reads_a, key)
                 /\ IF nm.raised \/ na.raised
                    THEN /\ Uncaught
                         /\ UNCHANGED <<r, c, result>>
                    ELSE IF nm.s # na.s
                    THEN /\ result' = FirstMismatch(rect.sheet, r, c, nm.s, na.s, mv, av)
                         /\ pc' = "returned"
                         /\ UNCHANGED <<r, c, exit_code, report>>
                    ELSE IF RectangleDone(rect, r, c)
                    THEN /\ result' = AllMatched
                         /\ pc' = "returned"
                         /\ UNCHANGED <<r, c, exit_code, report>>
                    ELSE /\ r' = NextPosition(rect, r, c)[1]
                         /\ c' = NextPosition(rect, r, c)[2]
                         /\ UNCHANGED <<pc, result, exit_code, report>>
    /\ UNCHANGED <<argv_sheets, args, sheetnames_m, sheetnames_a, open_m, open_a,
                   matched_sheets, idx, rect>>
    /\ UNCHANGED scanVars
    /\ UNCHANGED <<normVars, sortVars>>

\* load_workbook() succeeds on both files, or raises on the manual file, or
\* raises on the auto file after the manual file was opened
LoadOutcomes == {"both", "manual_fails", "auto_fails"}

\* the sheet list the for loop of main iterates: args.sheets as line 133 left it
SheetsToProcess(given) == <<FixedSheet>>

\* report_compare.main, lines 133-142: the sheet list is overwritten, the two
\* workbooks are opened
LoadWorkbooks ==
    /\ pc = "main"
    /\ args' = [args EXCEPT !.sheets = SheetsToProcess(args.sheets)]
    /\ \E outcome \in LoadOutcomes :
         /\ open_m' = (outcome # "manual_fails")
         /\ open_a' = (outcome = "both")
         /\ IF outcome = "both"
            THEN /\ pc' = "loop"
                 /\ UNCHANGED <<exit_code, report>>
            ELSE Exit(2, [NoReport EXCEPT !.kind = "OpenError"])
    /\ matched_sheets' = <<>>
    /\ idx' = 1
    /\ UNCHANGED <<argv_sheets, sheetnames_m, sheetnames_a, cells_m, cells_a,
                   reads_m, reads_a, rect, r, c, result>>
    /\ UNCHANGED scanVars
    /\ UNCHANGED <<normVars, sortVars>>

\* sheet in wb.sheetnames
HasSheet(sheet, names) == sheet \in names

\* report_compare.main, lines 145-166 and 182-185: the loop takes the next sheet
\* name, or ends with every sheet matched
NextSheet ==
    /\ pc = "loop"
    /\ IF idx > Len(args.sheets)
       THEN /\ Exit(0, [NoReport EXCEPT !.kind = "AllMatched",
                                        !.matched = matched_sheets])
            /\ UNCHANGED <<rect, r, c, result>>
       ELSE LET sheet == args.sheets[idx]
                has_manual == HasSheet(sheet, sheetnames_m)
                has_auto == HasSheet(sheet, sheetnames_a)
            IN  IF ~has_manual \/ ~has_auto
                THEN /\ Exit(2, [NoReport EXCEPT !.kind = "Missing",
                                                 !.sheet = sheet,
                                                 !.missing_manual = ~has_manual,
                                                 !.missing_auto = ~has_auto,
                                                 !.matched = matched_sheets])
                     /\ UNCHANGED <<rect, r, c, result>>
                ELSE /\ rect' = [sheet |-> sheet,
                                 start_row |-> args.start_row,
                                 start_col |-> args.start_col,
                                 rows |-> args.rows, cols |-> args.cols]
                     /\ r' = args.start_row
                     /\ c' = args.start_col
                     /\ result' = NoResult
                     /\ pc' = "compare_rect"
                     /\ UNCHANGED <<exit_code, report>>
    /\ UNCHANGED <<argv_sheets, args, sheetnames_m, sheetnames_a, open_m, open_a,
                   cells_m, cells_a, reads_m, reads_a, matched_sheets, idx>>
    /\ UNCHANGED scanVars
    /\ UNCHANGED <<normVars, sortVars>>

\* matched_sheets with the sheet appended whatever compare_rect returned
AppendAlways(matched, sheet, ok) == Append(matched, sheet)

\* matched_sheets after compare_rect returned ok for sheet
MatchedAfter(matched, sheet, ok) == IF ok THEN Append(matched, sheet) ELSE matched

\* report_compare.main, lines 167-180: the result of compare_rect is handled
AfterCompare ==
    /\ pc = "returned"
    /\ matched_sheets' = MatchedAfter(matched_sheets, rect.sheet, result.ok)
    /\ IF ~result.ok
       THEN /\ Exit(1, [NoReport EXCEPT !.kind = "Mismatch",
                                        !.sheet = result.info.sheet,
                                        !.matched = matched_sheets',
                                        !.info = result.info])
            /\ UNCHANGED idx
       ELSE /\ idx' = idx + 1
            /\ pc' = "loop"
            /\ UNCHANGED <<exit_code, report>>
    /\ UNCHANGED <<argv_sheets, args, sheetnames_m, sheetnames_a, open_m, open_a,
                   cells_m, cells_a, reads_m, reads_a, rect, r, c, result>>
    /\ UNCHANGED scanVars
    /\ UNCHANGED <<normVars, sortVars>>

(***************************************************************************)
(* Bounds and specifications                                               *)
(***************************************************************************)

\* compare_rect on its own: rectangles of up to RectMaxRows x RectMaxCols
\* cells, RectMaxCells at most, starting at row and column 1 or 2
RectMaxRows == 3
RectMaxCols == 3
RectMaxCells == 9
StartPositions == {1, 2}

\* report_compare.main: up to MaxSheets names on the command line, a
\* rectangle of up to MaxRows x MaxCols cells
MaxSheets == 2
MaxRows == 1
MaxCols == 2

SeqsUpTo(S, n) == UNION {[1..k -> S] : k \in 1..n}

NoRect == [sheet |-> "", start_row |-> 1, start_col |-> 1, rows |-> 1, cols |-> 1]

NoArgs == [sheets |-> <<>>, rows |-> 1, cols |-> 1, start_row |-> 1, start_col |-> 1]

EmptyCells == [k \in {} |-> PyNone]

\* a call compare_rect(ws_m, ws_a, sheet, start_row, start_col, rows, cols)
InitRect ==
    /\ pc = "compare_rect"
    /\ rect \in {q \in [sheet : {"A"}, start_row : StartPositions,
                        start_col : StartPositions,
                        rows : 0..RectMaxRows, cols : 0..RectMaxCols] :
                   q.rows * q.cols <= RectMaxCells}
    /\ r = rect.start_row
    /\ c = rect.start_col
    /\ result = NoResult
    /\ argv_sheets = <<>>
    /\ args = NoArgs
    /\ sheetnames_m = {"A"}
    /\ sheetnames_a = {"A"}
    /\ open_m = TRUE
    /\ open_a = TRUE
    /\ cells_m = EmptyCells
    /\ cells_a = EmptyCells
    /\ reads_m = <<>>
    /\ reads_a = <<>>
    /\ matched_sheets = <<>>
    /\ idx = 1
    /\ m_row = 0
    /\ a_row = 0
    /\ current_offset = 0
    /\ compared_pairs = 0
    /\ exit_code = -1
    /\ report = NoReport
    /\ NormIdle
    /\ SortIdle

SpecRect == InitRect /\ [][CompareCell]_vars

\* a run of report_compare.py
InitCompare ==
    /\ pc = "main"
    /\ argv_sheets \in SeqsUpTo(SheetNames, MaxSheets)
    /\ args \in [sheets : {argv_sheets}, rows : 0..MaxRows, cols : 0..MaxCols,
                 start_row : StartPositions, start_col : StartPositions]
    /\ sheetnames_m \in SUBSET SheetNames
    /\ sheetnames_a \in SUBSET SheetNames
    /\ open_m = FALSE
    /\ open_a = FALSE
    /\ cells_m = EmptyCells
    /\ cells_a = EmptyCells
    /\ reads_m = <<>>
    /\ reads_a = <<>>
    /\ matched_sheets = <<>>
    /\ idx = 1
    /\ rect = NoRect
    /\ r = 1
    /\ c = 1
    /\ result = NoResult
    /\ m_row = 0
    /\ a_row = 0
    /\ current_offset = 0
    /\ compared_pairs = 0
    /\ exit_code = -1
    /\ report = NoReport
    /\ NormIdle
    /\ SortIdle

NextCompare ==
    \/ LoadWorkbooks
    \/ NextSheet
    \/ CompareCell
    \/ AfterCompare

SpecCompare == InitCompare /\ [][NextCompare]_vars

(***************************************************************************)
(* inter_compare_offset.py                                                 *)
(***************************************************************************)

\* the sheets hold data in rows 1..MaxDataRow; a cell below is empty
MaxDataRow == 3
\* --num-cols is 0..MaxNumCols, --offset is 0..MaxOffset
MaxNumCols == 2
MaxOffset == 1

NoScanReport == [kind |-> "none", compared_pairs |-> 0, offset |-> 0,
                 m_row |-> 0, a_row |-> 0, num_cols |-> 0, mismatches |-> <<>>]

\* the values row row_index of a sheet may hold in its first num_cols columns
RowChoices(cells, sheet, row_index, num_cols, fresh) ==
    {f \in [1..num_cols -> fresh \cup {PyNone}] :
       \A col \in 1..num_cols :
          f[col] \in ValuesAt(cells, CellKey(sheet, row_index, col),
                              IF row_index > MaxDataRow THEN {PyNone} ELSE fresh)}

\* read_row: the cells of the row, each normalized
read_row(raw) == [col \in 1..Len(raw) |-> off_normalize(raw[col])]

\* the first column at which read_row raises, 0 when it returns
FirstRaise(vals) ==
    IF \E col \in 1..Len(vals) : vals[col].raised
    THEN CHOOSE col \in 1..Len(vals) :
            /\ vals[col].raised
            /\ \A j \in 1..(col - 1) : ~vals[j].raised
    ELSE 0

\* the columns read_row reads: all of them, or up to the one that raised
ColumnsRead(vals) == IF FirstRaise(vals) = 0 THEN Len(vals) ELSE FirstRaise(vals)

RevealRow(cells, sheet, row_index, raw, n) ==
    [k \in {CellKey(sheet, row_index, col) : col \in 1..n} |-> raw[k[3]]] @@ cells

\* the row below the cursor is read
ReadsOfNextRow(sheet, row_index, n) ==
    [col \in 1..n |-> CellKey(sheet, row_index + 1, col)]

ReadsOfRow(sheet, row_index, n) == [col \in 1..n |-> CellKey(sheet, row_index, col)]

\* is_empty_row(values)
is_empty_row(values) == \A col \in 1..Len(values) : values[col].s = <<>>

\* the loop ends when the row of either side is empty
EitherSideEmpty(m_vals, a_vals) == is_empty_row(m_vals) \/ is_empty_row(a_vals)

\* the end condition of the while loop, line 139: the manual row is empty
EndOfData(m_vals, a_vals) == is_empty_row(m_vals)

AllColumnPairs(m_vals, a_vals) ==
    [col \in 1..Len(m_vals) |-> <<col, m_vals[col].s, a_vals[col].s>>]

\* only the first mismatching column is kept
FirstMismatchOnly(m_vals, a_vals) ==
    LET all == SelectSeq(AllColumnPairs(m_vals, a_vals), LAMBDA t : t[2] # t[3])
    IN  IF all = <<>> THEN <<>> ELSE <<Head(all)>>

\* no column is ever reported
NoMismatches(m_vals, a_vals) == <<>>

\* mismatches: (1-based column, manual value, auto value) of every column that
\* differs, in column order
Mismatches(m_vals, a_vals) ==
    SelectSeq(AllColumnPairs(m_vals, a_vals), LAMBDA t : t[2] # t[3])

\* inter_compare_offset.main, lines 108-113: the two workbooks are opened
OffLoadWorkbooks ==
    /\ pc = "off_main"
    /\ \E outcome \in LoadOutcomes :
         /\ open_m' = (outcome # "manual_fails")
         /\ open_a' = (outcome = "both")
         /\ IF outcome = "both"
            THEN /\ pc' = "off_sheets"
                 /\ UNCHANGED <<exit_code, report>>
            ELSE Exit(2, [NoScanReport EXCEPT !.kind = "OpenError"])
    /\ UNCHANGED <<args, sheetnames_m, sheetnames_a, cells_m, cells_a, reads_m,
                   reads_a>>
    /\ UNCHANGED compareVars
    /\ UNCHANGED scanVars
    /\ UNCHANGED <<normVars, sortVars>>

\* inter_compare_offset.main, lines 115-128: the two sheets are looked up and
\* the cursor is set
OffFindSheets ==
    /\ pc = "off_sheets"
    /\ IF ~HasSheet(args.manual_sheet, sheetnames_m)
       THEN /\ Exit(2, [NoScanReport EXCEPT !.kind = "ManualSheetMissing"])
            /\ UNCHANGED scanVars
       ELSE IF ~HasSheet(args.auto_sheet, sheetnames_a)
       THEN /\ Exit(2, [NoScanReport EXCEPT !.kind = "AutoSheetMissing"])
            /\ UNCHANGED scanVars
       ELSE /\ m_row' = args.manual_start + args.offset
            /\ a_row' = args.auto_start + args.offset
            /\ current_offset' = args.offset
            /\ compared_pairs' = 0
            /\ pc' = "scanning"
            /\ UNCHANGED <<exit_code, report>>
    /\ UNCHANGED <<args, sheetnames_m, sheetnames_a, open_m, open_a, cells_m,
                   cells_a, reads_m, reads_a>>
    /\ UNCHANGED compareVars
    /\ UNCHANGED <<normVars, sortVars>>

\* inter_compare_offset.main, lines 134-162: one pass of the while loop
ScanRow ==
    /\ pc = "scanning"
    /\ \E m_raw \in RowChoices(cells_m, args.manual_sheet, m_row, args.num_cols,
                               ManualValues),
          a_raw \in RowChoices(cells_a, args.auto_sheet, a_row, args.num_cols,
                               AutoValues) :
         LET m_vals == read_row(m_raw)
             a_vals == read_row(a_raw)
             m_read == ColumnsRead(m_vals)
             a_read == IF FirstRaise(m_vals) # 0 THEN 0 ELSE ColumnsRead(a_vals)
         IN  /\ cells_m' = RevealRow(cells_m, args.manual_sheet, m_row, m_raw, m_read)
             /\ cells_a' = RevealRow(cells_a, args.auto_sheet, a_row, a_raw, a_read)
             /\ reads_m' = reads_m \o ReadsOfRow(args.manual_sheet, m_row, m_read)
             /\ reads_a' = reads_a \o ReadsOfRow(args.auto_sheet, a_row, a_read)
             /\ IF FirstRaise(m_vals) # 0 \/ FirstRaise(a_vals) # 0
                THEN /\ Exit(1, [NoScanReport EXCEPT !.kind = "Traceback",
                                                     !.offset = current_offset,
                                                     !.m_row = m_row,
                                                     !.a_row = a_row])
                     /\ UNCHANGED scanVars
                ELSE IF EndOfData(m_vals, a_vals)
                THEN /\ Exit(0, [NoScanReport EXCEPT !.kind = "EndOfData",
                                                     !.compared_pairs = compared_pairs,
                                                     !.offset = current_offset,
                                                     !.m_row = m_row,
                                                     !.a_row = a_row])
                     /\ UNCHANGED scanVars
                ELSE IF Mismatches(m_vals, a_vals) # <<>>
                THEN /\ Exit(1, [NoScanReport EXCEPT !.kind = "Mismatch",
                                                     !.offset = current_offset,
                                                     !.m_row = m_row,
                                                     !.a_row = a_row,
                                                     !.num_cols = args.num_cols,
                                                     !.mismatches =
                                                        Mismatches(m_vals, a_vals)])
                     /\ UNCHANGED scanVars
                ELSE /\ compared_pairs' = compared_pairs + 1
                     /\ m_row' = m_row + 1
                     /\ a_row' = a_row + 1
                     /\ current_offset' = current_offset + 1
                     /\ UNCHANGED <<pc, exit_code, report>>
    /\ UNCHANGED <<args, sheetnames_m, sheetnames_a, open_m, open_a>>
    /\ UNCHANGED compareVars
    /\ UNCHANGED <<normVars, sortVars>>

\* a run of inter_compare_offset.py
InitOffset ==
    /\ pc = "off_main"
    /\ args \in [manual_sheet : {"A"}, auto_sheet : {"A"},
                 num_cols : 0..MaxNumCols,
                 manual_start : StartPositions, auto_start : {1},
                 offset : 0..MaxOffset]
    /\ sheetnames_m \in SUBSET {"A"}
    /\ sheetnames_a \in SUBSET {"A"}
    /\ open_m = FALSE
    /\ open_a = FALSE
    /\ cells_m = EmptyCells
    /\ cells_a = EmptyCells
    /\ reads_m = <<>>
    /\ reads_a = <<>>
    /\ m_row = 0
    /\ a_row = 0
    /\ current_offset = 0
    /\ compared_pairs = 0
    /\ argv_sheets = <<>>
    /\ matched_sheets = <<>>
    /\ idx = 1
    /\ rect = NoRect
    /\ r = 1
    /\ c = 1
    /\ result = NoResult
    /\ exit_code = -1
    /\ report = NoScanReport
    /\ NormIdle
    /\ SortIdle

NextOffset ==
    \/ OffLoadWorkbooks
    \/ OffFindSheets
    \/ ScanRow

SpecOffset == InitOffset /\ [][NextOffset]_vars

\* the scanner is sequential code: a step that can be taken is taken
SpecOffsetFair == SpecOffset /\ WF_vars(NextOffset)

(***************************************************************************)
(* The two normalizers on their own: normalize(value) of report_compare.py *)
(* and of inter_compare_offset.py, each applied to a pair of raw cell      *)
(* values as compare_rect and the scanner apply them to a manual and an    *)
(* auto cell.                                                              *)
(***************************************************************************)

PyBool(text) == [kind |-> "bool", repr |-> text]
PyInt(text) == [kind |-> "int", repr |-> text]
PyDecimal(text) == [kind |-> "Decimal", repr |-> text]

\* raw cell values of every type openpyxl hands out: absent, booleans,
\* integers, floats (with a negative zero, a NaN and one too large to round),
\* Decimals on both sides of a rounding boundary, and texts (numeric with a
\* thousands separator, rounding to zero, too large to round, non-numeric,
\* empty)
RawValues ==
    {PyNone,
     PyBool(<<"T", "r", "u", "e">>),
     PyBool(<<"F", "a", "l", "s", "e">>),
     PyInt(<<"1">>),
     PyInt(<<"0">>),
     PyFloat(<<"1", ".", "0">>),
     PyFloat(<<"1", "2", "3", "4", ".", "5">>),
     PyFloat(<<"-", "0", ".", "0">>),
     PyFloat(<<"1", "e", "+", "2", "3">>),
     PyFloat(<<"n", "a", "n">>),
     PyDecimal(<<"1", ".", "0", "0", "0", "0", "0", "5">>),
     PyDecimal(<<"1", ".", "0", "0", "0", "0", "0", "4">>),
     PyStr(<<"1", ",", "2", "3", "4", ".", "5">>),
     PyStr(<<"-", "0", ".", "0", "0", "0", "0", "0", "1">>),
     PyStr(<<"0">>),
     PyStr(<<"1", "e", "3", "0">>),
     PyStr(<<" ", "T", "R", "U", "E", " ">>),
     PyStr(<<"1", ".", "0", "0", "0", "0", "1">>),
     PyStr(<<"-", ".", "0", "0", "0", "0", "0", "5">>),
     PyStr(<<" ", "a", "B">>),
     PyStr(<<>>),
     PyStr(<<"1", ".">>)}

\* nm = normalize(manual cell), na = normalize(auto cell) in compare_rect
RcNormalize ==
    /\ pc = "normalize"
    /\ canon = <<>>
    /\ canon' = [i \in 1..Len(raw_values) |-> normalize(raw_values[i])]
    /\ UNCHANGED <<pc, raw_values, off_canon, exit_code, report>>
    /\ UNCHANGED <<args, sheetnames_m, sheetnames_a, open_m, open_a, cells_m,
                   cells_a, reads_m, reads_a>>
    /\ UNCHANGED <<compareVars, scanVars, sortVars>>

\* read_row's normalize(...) of a manual and an auto cell in the scanner
OffNormalize ==
    /\ pc = "normalize"
    /\ off_canon = <<>>
    /\ off_canon' = [i \in 1..Len(raw_values) |-> off_normalize(raw_values[i])]
    /\ UNCHANGED <<pc, raw_values, canon, exit_code, report>>
    /\ UNCHANGED <<args, sheetnames_m, sheetnames_a, open_m, open_a, cells_m,
                   cells_a, reads_m, reads_a>>
    /\ UNCHANGED <<compareVars, scanVars, sortVars>>

\* no workbook is involved
WorkbooksIdle ==
    /\ args = NoArgs
    /\ sheetnames_m = {}
    /\ sheetnames_a = {}
    /\ open_m = FALSE
    /\ open_a = FALSE
    /\ cells_m = EmptyCells
    /\ cells_a = EmptyCells
    /\ reads_m = <<>>
    /\ reads_a = <<>>
    /\ exit_code = -1
    /\ report = NoReport

CompareIdle ==
    /\ argv_sheets = <<>>
    /\ matched_sheets = <<>>
    /\ idx = 1
    /\ rect = NoRect
    /\ r = 1
    /\ c = 1
    /\ result = NoResult

ScanIdle ==
    /\ m_row = 0
    /\ a_row = 0
    /\ current_offset = 0
    /\ compared_pairs = 0

InitNormalize ==
    /\ pc = "normalize"
    /\ raw_values \in [1..2 -> RawValues]
    /\ canon = <<>>
    /\ off_canon = <<>>
    /\ WorkbooksIdle
    /\ CompareIdle
    /\ ScanIdle
    /\ SortIdle

NextNormalize ==
    \/ RcNormalize
    \/ OffNormalize

SpecNormalize == InitNormalize /\ [][NextNormalize]_vars

(***************************************************************************)
(* inter_sort_broker_priority.py.  A DataFrame is a record [columns,       *)
(* index, data]: the column names, the index label of every row and the    *)
(* rows, each a sequence of cells, one per column.                         *)
(***************************************************************************)

\* ord(ch) of the characters used in sheets: space, digits, letters
ord(ch) ==
    IF IsDigit(ch) THEN 48 + DigitVal(ch)
    ELSE IF \E i \in 1..26 : UpperChars[i] = ch
    THEN 64 + (CHOOSE i \in 1..26 : UpperChars[i] = ch)
    ELSE IF \E i \in 1..26 : LowerChars[i] = ch
    THEN 96 + (CHOOSE i \in 1..26 : LowerChars[i] = ch)
    ELSE 32

\* s < t for two Python strings
RECURSIVE StrLess(_, _)
StrLess(s, t) ==
    IF t = <<>> THEN FALSE
    ELSE IF s = <<>> THEN TRUE
    ELSE IF Head(s) # Head(t) THEN ord(Head(s)) < ord(Head(t))
    ELSE StrLess(Tail(s), Tail(t))

PRIORITY == <<<<"D", "W", "M">>, <<"F", "E", "D", "E", "X">>, <<"D", "H", "L", "E">>, <<"P", "O", "L">>, <<"U", "P", "S">>>>

BrokerName == <<"b", "r", "o", "k", "e", "r">>

\* df.columns, as positions
Columns(frame) == 1..Len(frame.columns)

\* find_broker_column(df): [raised, col]; raised is the KeyError
find_broker_column(frame) ==
    LET hits == {k \in Columns(frame) :
                   lower(strip(frame.columns[k])) = BrokerName}
    IN  IF hits = {} THEN [raised |-> TRUE, col |-> <<>>]
        ELSE [raised |-> FALSE,
              col |-> frame.columns[CHOOSE k \in hits : \A j \in hits : k <= j]]

\* df[broker_col]: the cells of the column of that name
ColumnCells(frame, col) ==
    LET k == CHOOSE j \in Columns(frame) : frame.columns[j] = col
    IN  [i \in 1..Len(frame.data) |-> frame.data[i][k]]

\* broker_vals = df[broker_col].astype(str).fillna("").str.strip()
broker_vals(frame, broker_col) ==
    LET cells == ColumnCells(frame, broker_col)
    IN  [i \in 1..Len(cells) |-> strip(cells[i])]

\* priority_index = {b: i for i, b in enumerate(PRIORITY)}
InPriority(b) == \E i \in 1..Len(PRIORITY) : PRIORITY[i] = b
priority_index(b) == (CHOOSE i \in 1..Len(PRIORITY) : PRIORITY[i] = b) - 1

is_nonprio(b) == IF InPriority(b) THEN 0 ELSE 1

\* every row gets the same _prio_idx
prio_idx_zero(b) == 0

\* _prio_idx: the position in PRIORITY, 0 for a broker that is not in it
prio_idx(b) == IF InPriority(b) THEN priority_index(b) ELSE 0

\* _broker_sort: the broker of a non-priority row, "" otherwise
broker_sort(b) == IF is_nonprio(b) = 1 THEN b ELSE <<>>

\* the sort key of a row: (_is_nonprio, _prio_idx, _broker_sort, _orig_idx)
SortKey(b, orig_idx) == <<is_nonprio(b), prio_idx(b), broker_sort(b), orig_idx>>

\* key1 <= key2 in the order of sort_values(by=[...])
KeyLeq(key1, key2) ==
    IF key1[1] # key2[1] THEN key1[1] < key2[1]
    ELSE IF key1[2] # key2[2] THEN key1[2] < key2[2]
    ELSE IF key1[3] # key2[3] THEN StrLess(key1[3], key2[3])
    ELSE key1[4] <= key2[4]

\* kind="mergesort": the stable merge of two sorted runs of <<key, position>>
RECURSIVE Merge(_, _)
Merge(left, right) ==
    IF left = <<>> THEN right
    ELSE IF right = <<>> THEN left
    ELSE IF KeyLeq(Head(left)[1], Head(right)[1])
    THEN <<Head(left)>> \o Merge(Tail(left), right)
    ELSE <<Head(right)>> \o Merge(left, Tail(right))

RECURSIVE MergeSort(_)
MergeSort(items) ==
    IF Len(items) <= 1 THEN items
    ELSE LET half == Len(items) \div 2
         IN  Merge(MergeSort(SubSeq(items, 1, half)),
                   MergeSort(SubSeq(items, half + 1, Len(items))))

\* sort_by_broker_priority(df, broker_col): the rows and their index labels in
\* sorted order, the helper columns dropped again
sort_by_broker_priority(frame, broker_col) ==
    LET brokers == broker_vals(frame, broker_col)
        items == [i \in 1..Len(frame.data) |-> <<SortKey(brokers[i], i - 1), i>>]
        order == MergeSort(items)
    IN  [columns |-> frame.columns,
         index |-> [i \in 1..Len(order) |-> frame.index[order[i][2]]],
         data |-> [i \in 1..Len(order) |-> frame.data[order[i][2]]]]

\* str.split(","): the pieces of tok between the commas
RECURSIVE split_commas(_)
split_commas(tok) ==
    LET k == FirstIn(tok, {","})
    IN  IF k = 0 THEN <<tok>>
        ELSE <<SubSeq(tok, 1, k - 1)>> \o split_commas(SubSeq(tok, k + 1, Len(tok)))

\* _normalize_sheet_tokens(tokens): the stripped, non-empty pieces
RECURSIVE normalize_sheet_tokens(_)
normalize_sheet_tokens(tokens) ==
    IF tokens = <<>> THEN <<>>
    ELSE LET pieces == split_commas(Head(tokens))
             stripped == [i \in 1..Len(pieces) |-> strip(pieces[i])]
         IN  SelectSeq(stripped, LAMBDA piece : piece # <<>>)
               \o normalize_sheet_tokens(Tail(tokens))

\* int(t): [raised, n]; raised is the ValueError
int(t) ==
    LET u == strip(t)
    IN  IF Unsigned(u) # <<>> /\ AllDigits(Unsigned(u))
        THEN [raised |-> FALSE, n |-> SignedInt(u)]
        ELSE [raised |-> TRUE, n |-> 0]

\* [s for s in all_sheet_names if s.lower() == t.lower()]
matches(t, all_sheet_names) ==
    SelectSeq(all_sheet_names, LAMBDA name : lower(name) = lower(t))

AllToken == <<"a", "l", "l">>

\* one token of --sheets: the sheet it names, or nothing ("skipping")
resolve_token(t, all_sheet_names) ==
    IF ~int(t).raised
    THEN IF int(t).n < 0 \/ int(t).n >= Len(all_sheet_names)
         THEN <<>>
         ELSE <<all_sheet_names[int(t).n + 1]>>
    ELSE IF matches(t, all_sheet_names) # <<>>
         THEN <<matches(t, all_sheet_names)[1]>>
         ELSE <<>>

RECURSIVE resolve_tokens(_, _)
resolve_tokens(tokens, all_sheet_names) ==
    IF tokens = <<>> THEN <<>>
    ELSE resolve_token(Head(tokens), all_sheet_names)
           \o resolve_tokens(Tail(tokens), all_sheet_names)

\* the --sheet selector: the sheet it names, or the first sheet
resolve_single(sheet_arg, all_sheet_names) ==
    LET t == strip(sheet_arg)
    IN  IF ~int(t).raised
        THEN IF int(t).n < 0 \/ int(t).n >= Len(all_sheet_names)
             THEN <<all_sheet_names[1]>>
             ELSE <<all_sheet_names[int(t).n + 1]>>
        ELSE IF matches(t, all_sheet_names) # <<>>
             THEN <<matches(t, all_sheet_names)[1]>>
             ELSE <<all_sheet_names[1]>>

\* deduplicate while preserving order
RECURSIVE dedupe(_)
dedupe(targets) ==
    IF targets = <<>> THEN <<>>
    ELSE LET front == dedupe(SubSeq(targets, 1, Len(targets) - 1))
             last == targets[Len(targets)]
         IN  IF \E i \in 1..Len(front) : front[i] = last THEN front
             ELSE Append(front, last)

\* resolve_target_sheets(sheets_args, sheet_arg, all_sheet_names); an argument
\* that was not given is None
resolve_target_sheets(a, all_sheet_names) ==
    IF a.sheets_given /\ a.sheets # <<>>
    THEN LET tokens == normalize_sheet_tokens(a.sheets)
         IN  IF \E i \in 1..Len(tokens) : lower(tokens[i]) = AllToken
             THEN dedupe(all_sheet_names)
             ELSE dedupe(resolve_tokens(tokens, all_sheet_names))
    ELSE IF a.sheet_given
    THEN dedupe(resolve_single(a.sheet, all_sheet_names))
    ELSE <<all_sheet_names[1]>>

\* sort_by_broker_priority on its own: frames of up to MaxSortRows rows
MaxSortRows == 5

\* the Broker cells: priority brokers, one of them padded, and two brokers
\* that are not in PRIORITY
SortBrokers ==
    {<<"F", "E", "D", "E", "X">>, <<"U", "P", "S">>, <<"Z", "E", "T", "A">>, <<"D", "W", "M">>,
     <<" ", "D", "W", "M", " ">>, <<"a", "c", "m", "e">>}

IdName == <<"I", "d">>

\* a sheet with an Id and a Broker column (named as header) and these brokers
FrameOf(header, brokers) ==
    [columns |-> <<IdName, header>>,
     index |-> [i \in 1..Len(brokers) |-> i - 1],
     data |-> [i \in 1..Len(brokers) |-> <<DecimalDigits(i - 1), brokers[i]>>]]

NoFrame == <<>>

\* a call sort_by_broker_priority(df, find_broker_column(df))
SortCall ==
    /\ pc = "sort"
    /\ df_sorted' = sort_by_broker_priority(df, find_broker_column(df).col)
    /\ pc' = "sorted"
    /\ UNCHANGED <<df, sort_args, xls, target_sheet_names, out_frames, sheet_i,
                   sorted_any, written>>
    /\ UNCHANGED <<args, sheetnames_m, sheetnames_a, open_m, open_a, cells_m,
                   cells_a, reads_m, reads_a, exit_code, report>>
    /\ UNCHANGED <<compareVars, scanVars, normVars>>

InitSort ==
    /\ pc = "sort"
    /\ \E n \in 0..MaxSortRows :
         \E brokers \in [1..n -> SortBrokers] :
            df = FrameOf(<<"B", "R", "O", "K", "E", "R", " ">>, brokers)
    /\ df_sorted = NoFrame
    /\ sort_args = <<>>
    /\ xls = <<>>
    /\ target_sheet_names = <<>>
    /\ out_frames = <<>>
    /\ sheet_i = 0
    /\ sorted_any = FALSE
    /\ written = <<>>
    /\ WorkbooksIdle
    /\ CompareIdle
    /\ ScanIdle
    /\ NormIdle

SpecSort == InitSort /\ [][SortCall]_vars

\* pd.DataFrame()
EmptyFrame == [columns |-> <<>>, index |-> <<>>, data |-> <<>>]

\* df.empty: no columns or no rows
empty(frame) == Len(frame.columns) = 0 \/ Len(frame.data) = 0

\* the sheets of a workbook: one that cannot be read, one with a header row
\* and no data rows, one with data and no Broker column, one with data that
\* is out of broker order
SheetKinds == {"unreadable", "header_only", "no_broker", "brokers"}

SheetOfKind(kind) ==
    IF kind = "unreadable" THEN [readable |-> FALSE, frame |-> EmptyFrame]
    ELSE IF kind = "header_only"
    THEN [readable |-> TRUE, frame |-> FrameOf(<<"B", "r", "o", "k", "e", "r">>, <<>>)]
    ELSE IF kind = "no_broker"
    THEN [readable |-> TRUE, frame |-> FrameOf(<<"N", "a", "m", "e">>, <<<<"U", "P", "S">>, <<"D", "W", "M">>>>)]
    ELSE [readable |-> TRUE, frame |-> FrameOf(<<" ", "b", "r", "o", "k", "e", "r">>, <<<<"U", "P", "S">>, <<"D", "W", "M">>>>)]

\* pd.read_excel(xls, sheet_name=name): [raised, frame]
read_excel(book, name) ==
    IF book.sheets[name].readable
    THEN [raised |-> FALSE, frame |-> book.sheets[name].frame]
    ELSE [raised |-> TRUE, frame |-> EmptyFrame]

\* name in target_sheet_names
IsTarget(name, targets) == \E i \in 1..Len(targets) : targets[i] = name

NoSortReport == [kind |-> "none"]

\* main, lines 155-164: the input file is looked up and opened
SortOpen ==
    /\ pc = "sort_main"
    /\ \E outcome \in {"opened", "not_found", "open_fails"} :
         IF outcome = "not_found" THEN Exit(2, [kind |-> "InputNotFound"])
         ELSE IF outcome = "open_fails" THEN Exit(3, [kind |-> "OpenError"])
         ELSE /\ pc' = "sort_resolve"
              /\ UNCHANGED <<exit_code, report>>
    /\ UNCHANGED <<args, sheetnames_m, sheetnames_a, open_m, open_a, cells_m,
                   cells_a, reads_m, reads_a>>
    /\ UNCHANGED <<compareVars, scanVars, normVars, sortVars>>

\* main, lines 165-173: the target sheets are resolved
SortResolve ==
    /\ pc = "sort_resolve"
    /\ target_sheet_names' = resolve_target_sheets(sort_args, xls.sheet_names)
    /\ IF target_sheet_names' = <<>>
       THEN /\ Exit(4, [kind |-> "NoMatchingSheets"])
            /\ UNCHANGED <<out_frames, sheet_i, sorted_any>>
       ELSE /\ out_frames' = <<>>
            /\ sorted_any' = FALSE
            /\ sheet_i' = 1
            /\ pc' = "sort_loop"
            /\ UNCHANGED <<exit_code, report>>
    /\ UNCHANGED <<df, df_sorted, sort_args, xls, written>>
    /\ UNCHANGED <<args, sheetnames_m, sheetnames_a, open_m, open_a, cells_m,
                   cells_a, reads_m, reads_a>>
    /\ UNCHANGED <<compareVars, scanVars, normVars>>

\* the KeyError is caught and the rows of the sheet are lost
keyerror_loses_rows(frame) ==
    IF find_broker_column(frame).raised
    THEN [raised |-> TRUE, frame |-> [frame EXCEPT !.index = <<>>, !.data = <<>>]]
    ELSE [raised |-> FALSE,
          frame |-> sort_by_broker_priority(frame, find_broker_column(frame).col)]

\* lines 184-191: find_broker_column and sort_by_broker_priority inside the
\* try; raised is the KeyError
sorted_or_keyerror(frame) ==
    IF find_broker_column(frame).raised THEN [raised |-> TRUE, frame |-> frame]
    ELSE [raised |-> FALSE,
          frame |-> sort_by_broker_priority(frame, find_broker_column(frame).col)]

\* main, lines 175-193: one pass of the loop over xls.sheet_names
SortSheet ==
    /\ pc = "sort_loop"
    /\ sheet_i <= Len(xls.sheet_names)
    /\ LET name == xls.sheet_names[sheet_i]
           rd == read_excel(xls, name)
           st == sorted_or_keyerror(rd.frame)
       IN  IF rd.raised
           THEN /\ out_frames' = Append(out_frames, <<name, EmptyFrame>>)
                /\ UNCHANGED sorted_any
           ELSE IF IsTarget(name, target_sheet_names)
           THEN IF st.raised
                THEN /\ out_frames' = Append(out_frames, <<name, st.frame>>)
                     /\ UNCHANGED sorted_any
                ELSE /\ out_frames' = Append(out_frames, <<name, st.frame>>)
                     /\ sorted_any' = TRUE
           ELSE /\ out_frames' = Append(out_frames, <<name, rd.frame>>)
                /\ UNCHANGED sorted_any
    /\ sheet_i' = sheet_i + 1
    /\ UNCHANGED <<pc, exit_code, report>>
    /\ UNCHANGED <<df, df_sorted, sort_args, xls, target_sheet_names, written>>
    /\ UNCHANGED <<args, sheetnames_m, sheetnames_a, open_m, open_a, cells_m,
                   cells_a, reads_m, reads_a>>
    /\ UNCHANGED <<compareVars, scanVars, normVars>>

\* line 202: the frame is skipped
skipped(name, frame, targets) == empty(frame) /\ ~IsTarget(name, targets)

\* df.to_excel(writer, sheet_name=name, index=False) of the frames not skipped
to_excel(frames, targets) ==
    LET kept == SelectSeq(frames, LAMBDA f : ~skipped(f[1], f[2], targets))
    IN  [i \in 1..Len(kept) |->
           [name |-> kept[i][1], columns |-> kept[i][2].columns,
            data |-> kept[i][2].data]]

\* main, lines 195-210: the output workbook is written, or the writer raises
SortWrite ==
    /\ pc = "sort_loop"
    /\ sheet_i > Len(xls.sheet_names)
    /\ \E outcome \in {"written", "write_fails"} :
         IF outcome = "write_fails"
         THEN /\ Exit(5, [kind |-> "WriteError"])
              /\ UNCHANGED written
         ELSE /\ written' = to_excel(out_frames, target_sheet_names)
              /\ Exit(0, [kind |-> "Done"])
    /\ UNCHANGED <<df, df_sorted, sort_args, xls, target_sheet_names, out_frames,
                   sheet_i, sorted_any>>
    /\ UNCHANGED <<args, sheetnames_m, sheetnames_a, open_m, open_a, cells_m,
                   cells_a, reads_m, reads_a>>
    /\ UNCHANGED <<compareVars, scanVars, normVars>>

\* a workbook has 1..MaxBookSheets sheets; --sheets has 1..MaxTokens tokens
MaxBookSheets == 2
MaxTokens == 2

BookSheetNames == {<<"A">>, <<"b">>, <<"C">>}

\* the selectors: a valid and an out-of-range index, a name in another case, an
\* unknown name, "all", and two names in one comma-separated token
SheetTokens ==
    {<<"1">>, <<"7">>, <<"B">>, <<"z", "z">>, <<"A", "L", "L">>, <<"a", ",", " ", "z", "z">>}

NoSheetArg == <<>>

\* the command lines: no selector, --sheet with one token, --sheets with tokens
SortArgs ==
    {[sheets_given |-> FALSE, sheets |-> <<>>, sheet_given |-> FALSE,
      sheet |-> NoSheetArg]}
    \cup {[sheets_given |-> FALSE, sheets |-> <<>>, sheet_given |-> TRUE,
           sheet |-> t] : t \in SheetTokens}
    \cup {[sheets_given |-> TRUE, sheets |-> ts, sheet_given |-> FALSE,
           sheet |-> NoSheetArg] : ts \in SeqsUpTo(SheetTokens, MaxTokens)}

NoRepeatedName(ns) == \A i, j \in 1..Len(ns) : i # j => ns[i] # ns[j]

\* the workbooks: distinct sheet names, every sheet of one of the kinds
Books ==
    UNION {{[sheet_names |-> names, sheets |-> [n \in DOMAIN kinds |-> SheetOfKind(kinds[n])]] :
              kinds \in [{names[i] : i \in 1..Len(names)} -> SheetKinds]} :
           names \in {ns \in SeqsUpTo(BookSheetNames, MaxBookSheets) :
                        NoRepeatedName(ns)}}

\* a run of inter_sort_broker_priority.py
InitSorter ==
    /\ pc = "sort_main"
    /\ sort_args \in SortArgs
    /\ xls \in Books
    /\ target_sheet_names = <<>>
    /\ out_frames = <<>>
    /\ sheet_i = 0
    /\ sorted_any = FALSE
    /\ written = <<>>
    /\ df = NoFrame
    /\ df_sorted = NoFrame
    /\ exit_code = -1
    /\ report = NoSortReport
    /\ args = NoArgs
    /\ sheetnames_m = {}
    /\ sheetnames_a = {}
    /\ open_m = FALSE
    /\ open_a = FALSE
    /\ cells_m = EmptyCells
    /\ cells_a = EmptyCells
    /\ reads_m = <<>>
    /\ reads_a = <<>>
    /\ CompareIdle
    /\ ScanIdle
    /\ NormIdle

NextSorter ==
    \/ SortOpen
    \/ SortResolve
    \/ SortSheet
    \/ SortWrite

SpecSorter == InitSorter /\ [][NextSorter]_vars

(***************************************************************************)
(* Properties                                                              *)
(***************************************************************************)

IsPrefix(s, t) == Len(s) <= Len(t) /\ SubSeq(t, 1, Len(s)) = s

NoRepeats(log) == \A i, j \in 1..Len(log) : i # j => log[i] # log[j]

\* the cells of the rectangle q
RectKeys(q) ==
    {CellKey(q.sheet, row, col) : row \in q.start_row..LastRow(q),
                                  col \in q.start_col..LastCol(q)}

\* key1 comes before key2 in row-major order
RowMajorBefore(key1, key2) ==
    key1[2] < key2[2] \/ (key1[2] = key2[2] /\ key1[3] < key2[3])

\* both workbooks' cells at key have been read and have the same canonical string
CanonEqualAt(key) ==
    /\ key \in DOMAIN cells_m
    /\ key \in DOMAIN cells_a
    /\ ~normalize(cells_m[key]).raised
    /\ ~normalize(cells_a[key]).raised
    /\ normalize(cells_m[key]).s = normalize(cells_a[key]).s

\* what compare_rect returned is right for the cells of its rectangle
ResultIsRight ==
    /\ result.ok <=> \A key \in RectKeys(rect) : CanonEqualAt(key)
    /\ ~result.ok =>
         LET at == CellKey(rect.sheet, result.info.row, result.info.col)
         IN  /\ at \in RectKeys(rect)
             /\ at \in DOMAIN cells_m /\ at \in DOMAIN cells_a
             /\ ~CanonEqualAt(at)
             /\ \A key \in RectKeys(rect) : RowMajorBefore(key, at) => CanonEqualAt(key)
             /\ result.info.manual_raw = cells_m[at]
             /\ result.info.auto_raw = cells_a[at]
             /\ result.info.manual_norm = normalize(cells_m[at]).s
             /\ result.info.auto_norm = normalize(cells_a[at]).s
             /\ result.info.manual_norm # result.info.auto_norm

\* C1: every call of compare_rect returns, and returns AllMatched exactly when
\* the canonical strings agree at every position of the rectangle, otherwise
\* the mismatch at the least differing position in row-major order with both
\* canonical and both raw values.
C1_CompareRectResult ==
    pc \in {"returned", "exited"} => result.returned /\ ResultIsRight

\* whenever compare_rect does return, its result is the one C1 describes
CompareRectResultIfReturned == pc = "returned" => ResultIsRight

\* C2: no cell is read twice, and once compare_rect has found a mismatch at
\* (row, col) no cell after (row, col) in row-major order has been read from
\* either sheet.
C2_ShortCircuit ==
    /\ NoRepeats(reads_m)
    /\ NoRepeats(reads_a)
    /\ reads_m = reads_a
    /\ (result.returned /\ ~result.ok) =>
         LET at == CellKey(rect.sheet, result.info.row, result.info.col)
         IN  \A i \in 1..Len(reads_m) : ~RowMajorBefore(at, reads_m[i])

\* a 3x3 rectangle in which the centre cell is the first to differ: five cells
\* of each sheet have been read
C2_Witness ==
    /\ rect.rows = 3 /\ rect.cols = 3
    /\ result.returned /\ ~result.ok
    /\ result.info.row = rect.start_row + 1
    /\ result.info.col = rect.start_col + 1
    /\ Len(reads_m) = 5 /\ Len(reads_a) = 5

\* the scanner's loop has run and ended the process
ScanEnded == pc = "exited" /\ report.kind \in {"EndOfData", "Mismatch", "Traceback"}

ManualKey(row_index, col) == CellKey(args.manual_sheet, row_index, col)
AutoKey(row_index, col) == CellKey(args.auto_sheet, row_index, col)

\* the first num_cols cells of a row have been read and all normalize to ""
RowIsEmpty(cells, sheet, row_index) ==
    \A col \in 1..args.num_cols :
       /\ CellKey(sheet, row_index, col) \in DOMAIN cells
       /\ ~off_normalize(cells[CellKey(sheet, row_index, col)]).raised
       /\ off_normalize(cells[CellKey(sheet, row_index, col)]).s = <<>>

\* the first num_cols cells of a row have been read and one is not empty
RowIsNonEmpty(cells, sheet, row_index) ==
    /\ \A col \in 1..args.num_cols :
          /\ CellKey(sheet, row_index, col) \in DOMAIN cells
          /\ ~off_normalize(cells[CellKey(sheet, row_index, col)]).raised
    /\ \E col \in 1..args.num_cols :
          off_normalize(cells[CellKey(sheet, row_index, col)]).s # <<>>

\* column col of the row pair at offset i has been read and differs
ColumnDiffers(i, col) ==
    /\ ManualKey(args.manual_start + i, col) \in DOMAIN cells_m
    /\ AutoKey(args.auto_start + i, col) \in DOMAIN cells_a
    /\ off_normalize(cells_m[ManualKey(args.manual_start + i, col)]).s
         # off_normalize(cells_a[AutoKey(args.auto_start + i, col)]).s

\* the row pair at offset i: the manual row is non-empty and equals the auto row
RowPairMatches(i) ==
    /\ RowIsNonEmpty(cells_m, args.manual_sheet, args.manual_start + i)
    /\ \A col \in 1..args.num_cols :
          /\ AutoKey(args.auto_start + i, col) \in DOMAIN cells_a
          /\ ~off_normalize(cells_a[AutoKey(args.auto_start + i, col)]).raised
          /\ ~ColumnDiffers(i, col)

\* C3: when the manual row at the cursor is entirely empty the scan ends in
\* EndOfData with exit code 0, whatever the auto row holds; an entirely empty
\* auto row facing a non-empty manual row ends the scan in Mismatch.
C3_ManualEmptyEndsScan ==
    ScanEnded =>
      /\ RowIsEmpty(cells_m, args.manual_sheet, m_row) =>
            report.kind = "EndOfData" /\ exit_code = 0
      /\ (/\ RowIsNonEmpty(cells_m, args.manual_sheet, m_row)
          /\ RowIsEmpty(cells_a, args.auto_sheet, a_row)) =>
            report.kind = "Mismatch" /\ exit_code = 1

\* C3 for the runs in which no cell of the auto row makes normalize raise
ManualEmptyEndsScanUnlessRaised ==
    (ScanEnded /\ report.kind # "Traceback") =>
      /\ RowIsEmpty(cells_m, args.manual_sheet, m_row) <=> report.kind = "EndOfData"
      /\ report.kind = "EndOfData" => exit_code = 0

\* C4: pairsCompared = currentOffset - initialOffset throughout, and a scan
\* that matched the rows at offsets k..n-1 and finds the manual row at offset n
\* empty ends in EndOfData(pairsCompared = n - k, finalOffset = n), whatever
\* the auto sheet holds from offset n on.
C4_EndOfDataCounts ==
    /\ (pc = "scanning" \/ ScanEnded) =>
          compared_pairs = current_offset - args.offset
    /\ (/\ ScanEnded
        /\ RowIsEmpty(cells_m, args.manual_sheet, args.manual_start + current_offset)
        /\ \A i \in args.offset..(current_offset - 1) : RowPairMatches(i)) =>
          /\ report.kind = "EndOfData"
          /\ exit_code = 0
          /\ report.compared_pairs = current_offset - args.offset
          /\ report.offset = current_offset

\* C5: a Mismatch report lists, in ascending column order and with both
\* canonical values, exactly the columns of 1..num_cols that differ in the
\* failing row pair, and lists at least one.
C5_AllMismatchingColumns ==
    (pc = "exited" /\ report.kind = "Mismatch") =>
      LET ms == report.mismatches
      IN  /\ ms # <<>>
          /\ {ms[i][1] : i \in 1..Len(ms)}
               = {col \in 1..args.num_cols : ColumnDiffers(report.offset, col)}
          /\ \A i \in 1..(Len(ms) - 1) : ms[i][1] < ms[i + 1][1]
          /\ \A i \in 1..Len(ms) :
                /\ ms[i][2] = off_normalize(
                       cells_m[ManualKey(report.m_row, ms[i][1])]).s
                /\ ms[i][3] = off_normalize(
                       cells_a[AutoKey(report.a_row, ms[i][1])]).s
          /\ report.m_row = args.manual_start + report.offset
          /\ report.a_row = args.auto_start + report.offset

\* a failing row pair in which two columns differ, after one matching row pair
C5_Witness ==
    /\ pc = "exited"
    /\ report.kind = "Mismatch"
    /\ Len(report.mismatches) = 2
    /\ compared_pairs = 1

\* the sheet of the caller's list that comes after the sheets reported matched
NextOfCallerList == argv_sheets[Len(report.matched) + 1]

\* C6: when the sheet being processed is absent from a workbook, the run ends
\* in Missing with exit code 2, naming that sheet, the side or sides that lack
\* it and the sheets matched so far, and no cell of that sheet is read.
C6_MissingSheetEndsRun ==
    (/\ pc = "exited"
     /\ report.kind # "OpenError"
     /\ Len(report.matched) < Len(argv_sheets)
     /\ IsPrefix(report.matched, argv_sheets)
     /\ (NextOfCallerList \notin sheetnames_m \/ NextOfCallerList \notin sheetnames_a)) =>
       /\ report.kind = "Missing"
       /\ exit_code = 2
       /\ report.sheet = NextOfCallerList
       /\ report.missing_manual = (NextOfCallerList \notin sheetnames_m)
       /\ report.missing_auto = (NextOfCallerList \notin sheetnames_a)
       /\ \A i \in 1..Len(reads_m) : reads_m[i][1] # NextOfCallerList
       /\ \A i \in 1..Len(reads_a) : reads_a[i][1] # NextOfCallerList

\* C6 for the sheet list the loop iterates
MissingSheetOfProcessedList ==
    (pc = "exited" /\ report.kind # "OpenError") =>
      LET absent(sheet) == sheet \notin sheetnames_m \/ sheet \notin sheetnames_a
      IN  /\ report.kind = "Missing" =>
             /\ exit_code = 2
             /\ absent(report.sheet)
             /\ report.sheet = args.sheets[Len(report.matched) + 1]
             /\ report.missing_manual = (report.sheet \notin sheetnames_m)
             /\ report.missing_auto = (report.sheet \notin sheetnames_a)
             /\ \A i \in 1..Len(reads_m) : reads_m[i][1] # report.sheet
          /\ (\E i \in 1..Len(args.sheets) : absent(args.sheets[i])) =>
                report.kind \in {"Missing", "Mismatch", "Traceback"}

\* the rectangle of the arguments, on sheet
RectOf(sheet) ==
    [sheet |-> sheet, start_row |-> args.start_row, start_col |-> args.start_col,
     rows |-> args.rows, cols |-> args.cols]

\* C7: matched_sheets is a prefix of the processed sheet list; each of its
\* sheets exists in both workbooks and matched over the whole rectangle; the
\* sheet of a Mismatch or Missing report is not in it.
C7_MatchedSoFar ==
    /\ IsPrefix(matched_sheets, args.sheets)
    /\ \A i \in 1..Len(matched_sheets) :
          /\ matched_sheets[i] \in sheetnames_m
          /\ matched_sheets[i] \in sheetnames_a
          /\ \A key \in RectKeys(RectOf(matched_sheets[i])) : CanonEqualAt(key)
    /\ report.kind \in {"Mismatch", "Missing"} =>
          /\ report.matched = matched_sheets
          /\ \A i \in 1..Len(matched_sheets) : matched_sheets[i] # report.sheet

\* a run that ended with a sheet in matched_sheets
C7_Witness ==
    /\ pc = "exited"
    /\ report.kind = "AllMatched"
    /\ matched_sheets = <<FixedSheet>>
    /\ Len(reads_m) = args.rows * args.cols

\* C8: the sheets the run looks up and compares are the caller's --sheets
\* list, in order: the sheets matched so far are a prefix of that list and the
\* sheet compared, found missing or found mismatching is the next one of it.
C8_CallerOrder ==
    /\ IsPrefix(matched_sheets, argv_sheets)
    /\ pc \in {"compare_rect", "returned"} =>
          /\ Len(matched_sheets) < Len(argv_sheets)
          /\ rect.sheet = argv_sheets[Len(matched_sheets) + 1]
    /\ report.kind \in {"Missing", "Mismatch"} =>
          /\ Len(report.matched) < Len(argv_sheets)
          /\ report.sheet = NextOfCallerList
    /\ report.kind = "AllMatched" => report.matched = argv_sheets

\* C9: a run ends with 0 exactly when every listed sheet matched, with 1
\* exactly when a data mismatch was found, with 2 exactly on a missing sheet or
\* an unreadable file.
C9_ExitCodes ==
    pc = "exited" =>
      /\ exit_code \in {0, 1, 2}
      /\ exit_code = 0 <=> (report.kind = "AllMatched" /\ report.matched = argv_sheets)
      /\ exit_code = 1 <=> report.kind = "Mismatch"
      /\ exit_code = 2 <=> report.kind \in {"Missing", "OpenError"}

\* C10: no run ends with a workbook still open.
C10_WorkbooksReleased == pc = "exited" => ~open_m /\ ~open_a

(***************************************************************************)
(* The normalizers                                                         *)
(***************************************************************************)

\* a value the tools classify as numeric: a numeric type, or text that after
\* trimming and removing "," matches the numeric pattern
IsNumericValue(v) ==
    \/ v.kind \in {"int", "float", "Decimal"}
    \/ v.kind = "str" /\ NUMERIC_RE(drop_commas(strip(v.repr)))

NumberText(v) == IF v.kind = "str" THEN drop_commas(strip(v.repr)) ELSE v.repr

RECURSIVE Pow10(_)
Pow10(n) == IF n <= 0 THEN 1 ELSE 10 * Pow10(n - 1)

\* the number v denotes, rounded half away from zero to 5 fractional digits,
\* as an integer count of 0.00001s
RoundedHalfAway(v) ==
    LET d == DecimalOf(NumberText(v))
        n == ToInt(d.digits)
        k == 0 - (d.exp + 5)
        mag == IF k <= 0 THEN n * Pow10(0 - k)
               ELSE (2 * n + Pow10(k)) \div (2 * Pow10(k))
    IN  IF d.neg THEN 0 - mag ELSE mag

\* digits, a point, exactly five digits; a sign in front at most
FiveFractionDigits(s) ==
    LET u == Unsigned(s)
    IN  /\ Len(u) >= 7
        /\ u[Len(u) - 5] = "."
        /\ AllDigits(SubSeq(u, 1, Len(u) - 6))
        /\ AllDigits(SubSeq(u, Len(u) - 4, Len(u)))
        /\ (s # u => s[1] = "-")

ZeroText == <<"0", ".", "0", "0", "0", "0", "0">>

\* C11: normalize never fails: for every raw cell value, of either tool, it
\* returns a canonical string and never raises
C11_NormalizeNeverFails ==
    /\ \A i \in 1..Len(canon) : ~canon[i].raised
    /\ \A i \in 1..Len(off_canon) : ~off_canon[i].raised

\* what C12 asks of the two results res of one normalizer
NumericPairOk(res) ==
    (IsNumericValue(raw_values[1]) /\ IsNumericValue(raw_values[2])) =>
        /\ ~res[1].raised /\ ~res[2].raised
        /\ FiveFractionDigits(res[1].s) /\ FiveFractionDigits(res[2].s)
        /\ (res[1].s = res[2].s) <=>
              (RoundedHalfAway(raw_values[1]) = RoundedHalfAway(raw_values[2]))
        /\ \A i \in 1..2 :
              RoundedHalfAway(raw_values[i]) = 0 => res[i].s = ZeroText

\* C12: two numeric values normalize to the same string if and only if they
\* are equal after rounding half away from zero to 5 fractional digits; the
\* string has exactly 5 digits after the point, and a value that rounds to
\* zero gives "0.00000"
C12_RoundingEquivalence ==
    /\ canon # <<>> => NumericPairOk(canon)
    /\ off_canon # <<>> => NumericPairOk(off_canon)

\* normalize rounded both values: neither raised, neither is a NaN
BothRounded(res) ==
    \A i \in 1..2 : ~res[i].raised /\ DecimalOf(NumberText(raw_values[i])).cls = "finite"

\* the same for the values normalize does round
RoundingEquivalenceWhenRounded ==
    /\ (canon # <<>> /\ BothRounded(canon)) => NumericPairOk(canon)
    /\ (off_canon # <<>> /\ BothRounded(off_canon)) => NumericPairOk(off_canon)

TrueValue == PyBool(<<"T", "r", "u", "e">>)
OneValue == PyInt(<<"1">>)

\* a boolean's result res[i] is its lowercase text, and no numeric value of
\* the pair has the same result
BooleanIsText(res) ==
    \A i \in 1..Len(res) :
       raw_values[i].kind = "bool" =>
          /\ res[i] = Canonical(lower(raw_values[i].repr))
          /\ \A j \in 1..Len(res) :
                IsNumericValue(raw_values[j]) => res[j] # res[i]

\* C13: neither tool's normalize treats a boolean as a number: it normalizes
\* to "true" / "false", so TRUE never compares equal to 1 nor FALSE to 0
C13_BooleansAreText == BooleanIsText(canon) /\ BooleanIsText(off_canon)

C13_Witness ==
    /\ raw_values = <<TrueValue, OneValue>>
    /\ canon = <<Canonical(<<"t", "r", "u", "e">>), Canonical(<<"1", ".", "0", "0", "0", "0", "0">>)>>
    /\ off_canon = canon

(***************************************************************************)
(* The sorter                                                              *)
(***************************************************************************)

\* the trimmed broker of row i of a frame
BrokerAt(frame, i) == strip(frame.data[i][2])

\* the rows of sorted_frame are the rows of frame, each exactly once
IsPermutationOf(sorted_frame, frame) ==
    /\ sorted_frame.columns = frame.columns
    /\ Len(sorted_frame.data) = Len(frame.data)
    /\ Len(sorted_frame.index) = Len(frame.index)
    /\ \A k \in 1..Len(frame.index) :
          \E i \in 1..Len(sorted_frame.index) :
             /\ sorted_frame.index[i] = frame.index[k]
             /\ sorted_frame.data[i] = frame.data[k]
    /\ NoRepeats(sorted_frame.index)

\* priority groups first in PRIORITY order, then the others in ascending
\* string order of the broker, every group in original order
InBrokerOrder(frame) ==
    \A i, j \in 1..Len(frame.data) :
       i < j =>
          LET bi == BrokerAt(frame, i)
              bj == BrokerAt(frame, j)
          IN  /\ InPriority(bj) => InPriority(bi)
              /\ (InPriority(bi) /\ InPriority(bj)) =>
                    priority_index(bi) <= priority_index(bj)
              /\ (~InPriority(bi) /\ ~InPriority(bj)) =>
                    (bi = bj \/ StrLess(bi, bj))
              /\ bi = bj => frame.index[i] < frame.index[j]

Handled(k) == pc \in {"sort_loop", "exited"} /\ k <= Len(out_frames)

\* the sheet was read and has no Broker column
LacksBroker(name) ==
    /\ xls.sheets[name].readable
    /\ find_broker_column(xls.sheets[name].frame).raised

\* what the loop stores for a sheet that was read: sorted if it is selected
\* and has a Broker column, as read otherwise
ProcessedFrame(name) ==
    LET frame == xls.sheets[name].frame
    IN  IF IsTarget(name, target_sheet_names) /\ ~find_broker_column(frame).raised
        THEN sort_by_broker_priority(frame, find_broker_column(frame).col)
        ELSE frame

\* the output workbook has the sheet name with these columns and rows
IsWritten(name, frame) ==
    \E i \in 1..Len(written) :
       written[i] = [name |-> name, columns |-> frame.columns, data |-> frame.data]

\* a selected sheet without a Broker column has been handled
MissingBrokerHandled(k) ==
    /\ Handled(k)
    /\ IsTarget(xls.sheet_names[k], target_sheet_names)
    /\ LacksBroker(xls.sheet_names[k])

\* C15: a selected sheet without a Broker column is kept with its rows in
\* original order and written so; the run goes on to every other sheet
\* (sorted if selected, copied otherwise) and ends only after the write
C15_MissingBrokerIsPerSheet ==
    \A k \in 1..Len(out_frames) :
       MissingBrokerHandled(k) =>
          /\ out_frames[k] = <<xls.sheet_names[k], xls.sheets[xls.sheet_names[k]].frame>>
          /\ \A j \in 1..Len(out_frames) :
                xls.sheets[xls.sheet_names[j]].readable =>
                   out_frames[j] = <<xls.sheet_names[j], ProcessedFrame(xls.sheet_names[j])>>
          /\ pc = "exited" =>
                /\ Len(out_frames) = Len(xls.sheet_names)
                /\ exit_code \in {0, 5}
                /\ exit_code = 0 =>
                      IsWritten(xls.sheet_names[k], xls.sheets[xls.sheet_names[k]].frame)

\* the first sheet has no Broker column, the second is sorted after it, both
\* are written
C15_Witness ==
    /\ pc = "exited"
    /\ exit_code = 0
    /\ Len(xls.sheet_names) = 2
    /\ MissingBrokerHandled(1)
    /\ IsTarget(xls.sheet_names[2], target_sheet_names)
    /\ Len(written) = 2
    /\ written[2].data = <<<<"1", <<"D", "W", "M">>>>, <<"0", <<"U", "P", "S">>>>>>

\* resolve_target_sheets has returned
Resolved == pc = "sort_loop" \/ (pc = "exited" /\ exit_code \in {0, 4, 5})

\* C16: an unresolved selector of --sheet or --sheets falls back to the first
\* sheet: the target list is never empty and the run never ends with the
\* "no matching sheets" error
C16_UnresolvedFallsBack ==
    /\ exit_code # 4
    /\ Resolved => target_sheet_names # <<>>

\* the same for --sheet and for no selector at all
SingleSelectorFallsBack ==
    ~sort_args.sheets_given =>
       /\ exit_code # 4
       /\ Resolved => target_sheet_names # <<>>

\* C17: the output workbook has every sheet of the input workbook: the
\* selected ones sorted, the others with their rows unchanged, also the sheets
\* without data rows and the sheets that could not be read
C17_OutputHasAllSheets ==
    (pc = "exited" /\ exit_code = 0) =>
       /\ Len(written) = Len(xls.sheet_names)
       /\ \A k \in 1..Len(xls.sheet_names) :
             /\ written[k].name = xls.sheet_names[k]
             /\ xls.sheets[xls.sheet_names[k]].readable =>
                   IsWritten(xls.sheet_names[k], ProcessedFrame(xls.sheet_names[k]))

\* every sheet that has data rows and was read is in the output workbook
SheetsWithRowsAreWritten ==
    (pc = "exited" /\ exit_code = 0) =>
       \A k \in 1..Len(xls.sheet_names) :
          (xls.sheets[xls.sheet_names[k]].readable
             /\ ~empty(xls.sheets[xls.sheet_names[k]].frame)) =>
                IsWritten(xls.sheet_names[k], ProcessedFrame(xls.sheet_names[k]))

(***************************************************************************)
(* The offset scanner, continued                                           *)
(***************************************************************************)

\* C18: the scan ends cleanly in EndOfData, exit code 0, when the first
\* num_cols cells of either side are all empty at the current row pair, also
\* when the auto row is empty and the manual row is not
C18_EitherSideEmptyEndsScan ==
    (/\ ScanEnded
     /\ \/ RowIsEmpty(cells_m, args.manual_sheet, m_row)
        \/ RowIsEmpty(cells_a, args.auto_sheet, a_row)) =>
       report.kind = "EndOfData" /\ exit_code = 0

\* the same without the runs that end in a traceback
EitherSideEmptyEndsScanUnlessRaised ==
    (/\ ScanEnded
     /\ report.kind # "Traceback"
     /\ \/ RowIsEmpty(cells_m, args.manual_sheet, m_row)
        \/ RowIsEmpty(cells_a, args.auto_sheet, a_row)) =>
       report.kind = "EndOfData" /\ exit_code = 0

\* the cursor has been set
CursorSet == pc = "scanning" \/ ScanEnded

CursorInLockstep ==
    CursorSet =>
       /\ m_row = args.manual_start + current_offset
       /\ a_row = args.auto_start + current_offset

\* every row pair the cursor has left was non-empty on the manual side and
\* matched in all num_cols columns
PassedPairsMatch ==
    CursorSet => \A i \in args.offset..(current_offset - 1) : RowPairMatches(i)

\* a step of the scan that changes a cursor or the offset adds 1 to all three
LockstepAdvance ==
    (pc = "scanning" /\ <<m_row, a_row, current_offset>>' # <<m_row, a_row, current_offset>>) =>
       /\ m_row' = m_row + 1
       /\ a_row' = a_row + 1
       /\ current_offset' = current_offset + 1

\* C19: manual_row = manual_start + offset and auto_row = auto_start + offset
\* in every state of the scan; the cursors and the offset change only
\* together, by +1 each, and only after a matching, non-empty row pair
C19_CursorLockstep ==
    /\ [] (CursorInLockstep /\ PassedPairsMatch)
    /\ [][LockstepAdvance]_vars

\* the cursor has advanced twice
C19_Witness ==
    /\ pc = "scanning"
    /\ args.num_cols = MaxNumCols
    /\ current_offset = args.offset + 2
    /\ m_row = args.manual_start + args.offset + 2

\* the rows of the reads logged for one side, relative to its start row
OffsetsRead(reads, start) == {reads[i][2] - start : i \in 1..Len(reads)}

\* C20: a scan that ends in Mismatch or EndOfData at offset n matched, with a
\* non-empty manual row, at every offset from the initial one up to n - 1,
\* and read no row beyond offset n; no row below the initial offset is ever
\* read
C20_FirstDivergence ==
    /\ CursorSet =>
          \A i \in OffsetsRead(reads_m, args.manual_start)
                     \cup OffsetsRead(reads_a, args.auto_start) :
             i >= args.offset
    /\ (pc = "exited" /\ report.kind \in {"Mismatch", "EndOfData"}) =>
          /\ \A i \in args.offset..(report.offset - 1) : RowPairMatches(i)
          /\ \A i \in OffsetsRead(reads_m, args.manual_start)
                        \cup OffsetsRead(reads_a, args.auto_start) :
                i <= report.offset

\* a mismatch at the second row pair of a scan that started at offset 1
C20_Witness ==
    /\ pc = "exited"
    /\ report.kind = "Mismatch"
    /\ args.offset = 1
    /\ report.offset = 2
    /\ OffsetsRead(reads_m, args.manual_start) = {1, 2}
    /\ OffsetsRead(reads_a, args.auto_start) = {1, 2}

(***************************************************************************)
(* The scanner's terminal states and the two normalizers side by side      *)
(***************************************************************************)

\* the scan has ended in one of the two terminal states
ScanTerminal == pc = "exited" /\ report.kind \in {"EndOfData", "Mismatch"}

\* a step that leaves Scanning ends in EndOfData or Mismatch
LeavesScanningIntoTerminal ==
    (pc = "scanning" /\ pc' # "scanning") =>
       pc' = "exited" /\ report'.kind \in {"EndOfData", "Mismatch"}

\* the cursor never passes an entirely empty manual row
StopsAtEmptyManualRow ==
    CursorSet =>
       \A i \in args.offset..(current_offset - 1) :
          ~RowIsEmpty(cells_m, args.manual_sheet, args.manual_start + i)

\* with num_cols = 0 the scan ends at once in EndOfData, no pair compared
ZeroColumnsEndAtOnce ==
    (ScanEnded /\ args.num_cols = 0) =>
       /\ report.kind = "EndOfData"
       /\ report.compared_pairs = 0
       /\ report.offset = args.offset

\* C21: the scan leaves Scanning only into EndOfData or Mismatch; as the
\* manual sheet has an entirely empty row at or after the initial offset, the
\* scan reaches one of the two, at or before that row; with num_cols = 0 it
\* ends in EndOfData at once with no pair compared
C21_TwoTerminalStates ==
    /\ [][LeavesScanningIntoTerminal]_vars
    /\ (pc = "scanning") ~> ScanTerminal
    /\ [] (StopsAtEmptyManualRow /\ ZeroColumnsEndAtOnce)

\* a step of the scan leaves Scanning for good, into EndOfData, Mismatch or a
\* traceback, or moves the cursor one row down
ScanMakesProgress ==
    pc = "scanning" =>
       \/ pc' = "exited" /\ report'.kind \in {"EndOfData", "Mismatch", "Traceback"}
       \/ pc' = "scanning" /\ current_offset' = current_offset + 1

\* every step of the scan makes progress, and the cursor never passes an
\* entirely empty manual row: the scan ends at or before the first such row
ScanEndsOrAdvances ==
    /\ [][ScanMakesProgress]_vars
    /\ [] (StopsAtEmptyManualRow /\ ZeroColumnsEndAtOnce)

\* both normalizers have been applied to the pair of raw values
BothNormalized == canon # <<>> /\ off_canon # <<>>

\* C22: for every raw cell value the two normalizers return the same
\* canonical string or both fail, so the two tools judge any pair of cells
\* equal or unequal identically
C22_NormalizersAgree ==
    BothNormalized =>
       /\ \A i \in 1..Len(raw_values) : canon[i] = off_canon[i]
       /\ (\A i \in 1..Len(raw_values) : ~canon[i].raised /\ ~off_canon[i].raised) =>
             ((canon[1].s = canon[2].s) <=> (off_canon[1].s = off_canon[2].s))

\* a number on which both fail, next to a text with a thousands separator on
\* which both give the same rounded string
C22_Witness ==
    /\ raw_values = <<PyFloat(<<"1", "e", "+", "2", "3">>), PyStr(<<"1", ",", "2", "3", "4", ".", "5">>)>>
    /\ canon = <<Raised, Canonical(<<"1", "2", "3", "4", ".", "5", "0", "0", "0", "0">>)>>
    /\ off_canon = <<Raised, Canonical(<<"1", "2", "3", "4", ".", "5", "0", "0", "0", "0">>)>>

=============================================================================
